---- MODULE Spec2Model ----
(***************************************************************************)
(* Model of the SWC plugin inline/swc/src/lib.rs: a VisitMut visitor that  *)
(* rewrites `yield* e` inside generator functions to                       *)
(* `(yield $$inline(e))` and prepends an import to the module.             *)
(*                                                                         *)
(* Of the tree, the model keeps what the visitor tells apart: statements   *)
(* that are expressions, function expressions with their body, yields,     *)
(* calls, parentheses, identifiers and string literals.                    *)
(*                                                                         *)
(* The recursive visitor is modelled as a small-step machine over an       *)
(* explicit call stack: one frame per node whose visit_mut_* call is in    *)
(* progress.  The tree is a nested record; a frame addresses its node by   *)
(* the child indexes of the frames below it.                               *)
(***************************************************************************)
EXTENDS Integers, Sequences, FiniteSets, TLC

(***************************************************************************)
(* Bounds of the checked inputs.                                           *)
(***************************************************************************)
\* size of a unit: its leading string-literal statements plus the yield and
\* function wrappers nested around the leaf of its main item
MaxSize == 4
\* leading string-literal statements placed in front of the main item
MaxPrologue == 2

(***************************************************************************)
(* Program constants.                                                      *)
(***************************************************************************)
INLINE_BINDING == "$$inline"
INLINE_MODULE == "@effectionx/inline"
NO_INLINE_DIRECTIVE == "no inline"
\* span.lo of DUMMY_SP, the position of every synthesized node
DUMMY_SP == "dummy"

(***************************************************************************)
(* AST (the part of swc_core::ecma::ast the visitor distinguishes).        *)
(* An Option<T> is a sequence of length 0 or 1.                            *)
(***************************************************************************)
Ident(sym) == [type |-> "Ident", sym |-> sym]
LitStr(value) == [type |-> "Lit", value |-> value]
YieldExpr(arg, delegate) == [type |-> "Yield", arg |-> arg, delegate |-> delegate]
FnExpr(is_generator, span, body) ==
    [type |-> "Fn", is_generator |-> is_generator, span |-> span, body |-> body]
CallExpr(callee, args) == [type |-> "Call", callee |-> callee, args |-> args]
ParenExpr(expr) == [type |-> "Paren", expr |-> expr]
ExprStmt(expr) == [type |-> "ExprStmt", expr |-> expr]
ImportDecl(local, imported, src) ==
    [type |-> "Import", local |-> local, imported |-> imported, src |-> src]
Program(form, body) == [type |-> form, body |-> body]

(***************************************************************************)
(* The comment store handed over by the host, keyed by span.lo.            *)
(* get_leading returns Option<Vec<Comment>>; a comment text is a sequence  *)
(* of characters.                                                          *)
(***************************************************************************)
NOINLINE_TAG == <<"@", "n", "o", "i", "n", "l", "i", "n", "e">>
Comment(kind, text) == [kind |-> kind, text |-> text]
SpanPlain == "plain"
SpanBlockNoinline == "block_noinline"
SpanLineNoinline == "line_noinline"
SpanBlockOther == "block_other"
Spans == {DUMMY_SP, SpanPlain, SpanBlockNoinline, SpanLineNoinline, SpanBlockOther}
CommentStore ==
    [p \in Spans |->
        CASE p = SpanBlockNoinline ->
                << <<Comment("Block", <<"*", " ">> \o NOINLINE_TAG \o <<" ">>)>> >>
          [] p = SpanLineNoinline -> << <<Comment("Line", <<" ">> \o NOINLINE_TAG)>> >>
          [] p = SpanBlockOther ->
                << <<Comment("Block", <<"*", " ", "@", "n", "o", "t", "e">>)>> >>
          [] OTHER -> <<>>]

\* str::contains
Contains(text, needle) ==
    \E i \in 1..(Len(text) - Len(needle) + 1) :
        SubSeq(text, i, i + Len(needle) - 1) = needle

VARIABLES
    program,          \* the Program being mutated in place
    input,            \* the Program as it was handed to process_transform
    comments,         \* Option<Box<dyn Comments>>: <<>> or <<store>>
    generator_depth,  \* InlineTransformVisitor.generator_depth
    transformed,      \* InlineTransformVisitor.transformed
    skip_file,        \* InlineTransformVisitor.skip_file
    stack,            \* the visit_mut_* calls in progress, outermost first
    pc,               \* position of visit_mut_module / visit_mut_script
    rewrites,         \* number of times line 195 has run in this run
    run,              \* 1: first application, 2: application to its own output
    first_output      \* the Program returned by the first application

vars == <<program, input, comments, generator_depth, transformed, skip_file,
          stack, pc, rewrites, run, first_output>>

(***************************************************************************)
(* Tree access.                                                            *)
(***************************************************************************)
\* the node a statement contributes to the traversal
StmtNode(s) == IF s.type = "ExprStmt" THEN s.expr ELSE s

\* the children visit_mut_children_with descends into, in order
Children(n) ==
    CASE n.type \in {"Module", "Script", "Fn"} ->
            [i \in 1..Len(n.body) |-> StmtNode(n.body[i])]
      [] n.type = "Yield" -> n.arg
      [] n.type = "Call" -> <<n.callee>> \o n.args
      [] n.type = "Paren" -> <<n.expr>>
      [] OTHER -> <<>>

ReplaceChild(n, i, c) ==
    CASE n.type \in {"Module", "Script", "Fn"} ->
            [n EXCEPT !.body[i] = IF @.type = "ExprStmt" THEN [@ EXCEPT !.expr = c] ELSE c]
      [] n.type = "Yield" -> [n EXCEPT !.arg = <<c>>]
      [] n.type = "Call" ->
            IF i = 1 THEN [n EXCEPT !.callee = c] ELSE [n EXCEPT !.args[i - 1] = c]
      [] n.type = "Paren" -> [n EXCEPT !.expr = c]
      [] OTHER -> n

\* a yield's argument is not descended into
visit_mut_children_shallow(n) == IF n.type = "Yield" THEN <<>> ELSE Children(n)

\* node.visit_mut_children_with(self): the nodes visited, in order
visit_mut_children_with(n) == Children(n)

RECURSIVE NodeAt(_, _)
NodeAt(n, path) ==
    IF path = <<>> THEN n ELSE NodeAt(Children(n)[Head(path)], Tail(path))

RECURSIVE ReplaceAt(_, _, _)
ReplaceAt(n, path, new) ==
    IF path = <<>> THEN new
    ELSE ReplaceChild(n, Head(path),
                      ReplaceAt(Children(n)[Head(path)], Tail(path), new))

(***************************************************************************)
(* The visitor's helpers.                                                  *)
(***************************************************************************)
\* the directive is compared without regard to case
is_no_inline_directive_ci(stmt) ==
    IF stmt.type = "ExprStmt"
    THEN IF stmt.expr.type = "Lit"
         THEN stmt.expr.value \in {NO_INLINE_DIRECTIVE, "No Inline"}
         ELSE FALSE
    ELSE FALSE

is_no_inline_directive(stmt) ==
    IF stmt.type = "ExprStmt"
    THEN IF stmt.expr.type = "Lit" THEN stmt.expr.value = NO_INLINE_DIRECTIVE ELSE FALSE
    ELSE FALSE

is_no_inline_module_directive(item) ==
    IF item.type \in {"ExprStmt"} THEN is_no_inline_directive(item) ELSE FALSE

has_noinline_annotation(span) ==
    IF comments # <<>>
    THEN LET leading == comments[1][span] IN
         IF leading # <<>>
         THEN \E i \in 1..Len(leading[1]) :
                 /\ leading[1][i].kind = "Block"
                 /\ Contains(leading[1][i].text, NOINLINE_TAG)
         ELSE FALSE
    ELSE FALSE

inline_ident == Ident(INLINE_BINDING)

inline_call(arg) == CallExpr(inline_ident, <<arg>>)

\* the rewritten node keeps the delegate flag of the node it replaces
yield_inline_delegate(arg) == ParenExpr(YieldExpr(<<inline_call(arg)>>, TRUE))

yield_inline(arg) == ParenExpr(YieldExpr(<<inline_call(arg)>>, FALSE))

inline_import == ImportDecl(INLINE_BINDING, "inline", INLINE_MODULE)

(***************************************************************************)
(* Inputs: the units process_transform is applied to.                      *)
(***************************************************************************)
\* the directive, and texts that differ from it in case or by trailing content
StrValues == {NO_INLINE_DIRECTIVE, "No Inline", "no inline "}
GenSpans == {SpanPlain, SpanBlockNoinline}
Leaves == {Ident("foo"), YieldExpr(<<>>, TRUE)}

Wrap(S) ==
    {YieldExpr(<<e>>, d) : e \in S, d \in BOOLEAN}
    \cup {FnExpr(FALSE, SpanPlain, <<ExprStmt(e)>>) : e \in S}
    \cup {FnExpr(TRUE, sp, <<ExprStmt(e)>>) : e \in S, sp \in GenSpans}

RECURSIVE ExprSet(_)
ExprSet(n) == IF n = 0 THEN Leaves ELSE Leaves \cup Wrap(ExprSet(n - 1))

\* generators under the other comment shapes: a line comment with the tag,
\* a block comment without it
CommentProbes ==
    {FnExpr(TRUE, sp, <<ExprStmt(e)>>) :
        e \in ExprSet(1), sp \in {SpanLineNoinline, SpanBlockOther}}

RECURSIVE Prologues(_)
Prologues(n) ==
    IF n = 0 THEN {<<>>}
    ELSE {<<ExprStmt(LitStr(v))>> \o p : v \in StrValues, p \in Prologues(n - 1)}

\* the main item of a unit whose prologue has k statements
MainItems(k) ==
    {<<>>} \cup {<<ExprStmt(e)>> : e \in ExprSet(MaxSize - k)}
    \cup (IF k = 0 THEN {<<ExprStmt(e)>> : e \in CommentProbes} ELSE {})

Bodies ==
    UNION {{p \o m : p \in Prologues(k), m \in MainItems(k)} : k \in 0..MaxPrologue}

Init ==
    /\ \E form \in {"Module", "Script"}, body \in Bodies :
          /\ program = Program(form, body)
          /\ input = Program(form, body)
    /\ comments \in {<<>>, <<CommentStore>>}
    /\ generator_depth = 0
    /\ transformed = FALSE
    /\ skip_file = FALSE
    /\ stack = <<>>
    /\ pc = "start"
    /\ rewrites = 0
    /\ run = 1
    /\ first_output = <<>>

(***************************************************************************)
(* The call stack.  A frame is one visit_mut_expr / visit_mut_function     *)
(* call: idx is the node's index among its parent's children, next the     *)
(* child visit_mut_children_with descends into next, branch the arm of     *)
(* visit_mut_function the call is in ("expr" for a node that is no         *)
(* function).  The outermost frame is the unit's.                          *)
(***************************************************************************)
Frame(idx, branch) == [idx |-> idx, next |-> 1, branch |-> branch]
Path(stk) == [i \in 1..(Len(stk) - 1) |-> stk[i + 1].idx]
Top == stack[Len(stack)]
CurNode == NodeAt(program, Path(stack))
Pop(stk) == SubSeq(stk, 1, Len(stk) - 1)

\* the arm of visit_mut_function taken for f
FunctionBranch(f) ==
    IF f.is_generator
    THEN IF has_noinline_annotation(f.span) THEN "noinline" ELSE "generator"
    ELSE "plain"

\* generator_depth after the arm's entry / exit.  The field is a u32: the
\* nesting of a checked unit is far below 2^32, and a result below 0 stands
\* for the underflow of `-= 1` (a panic, or u32::MAX in a release build).
DepthOnEntry(branch, d) == IF branch = "generator" THEN d + 1 ELSE d
\* the decrement after the children is missing
DepthOnExitKept(branch, d) == d
DepthOnExit(branch, d) == IF branch = "generator" THEN d - 1 ELSE d

\* the delegate flag is not looked at
IsRewritableAnyYield(e) == IF e.type = "Yield" THEN e.arg # <<>> ELSE FALSE

\* lines 191-193: the node is replaced
IsRewritable(e) ==
    IF e.type = "Yield" THEN IF e.delegate THEN e.arg # <<>> ELSE FALSE ELSE FALSE

\* a missing argument is replaced by a placeholder instead of being left alone
RewriteExprDefaultArg(e, depth) ==
    IF depth = 0 THEN e
    ELSE IF e.type = "Yield"
         THEN IF e.delegate
              THEN yield_inline(IF e.arg # <<>> THEN e.arg[1] ELSE Ident("undefined"))
              ELSE e
         ELSE e

\* visit_mut_expr after its children: the node that is left in the slot
RewriteExpr(e, depth) ==
    IF depth = 0 THEN e
    ELSE IF IsRewritable(e) THEN yield_inline(e.arg[1]) ELSE e

(***************************************************************************)
(* visit_mut_module                                                        *)
(***************************************************************************)
\* the directive is recognised but left in the unit
visit_mut_module_skip_kept ==
    /\ pc = "start"
    /\ program.type = "Module"
    /\ Len(program.body) > 0
    /\ is_no_inline_module_directive(program.body[1])
    /\ skip_file' = TRUE
    /\ pc' = "done"
    /\ UNCHANGED <<program, input, comments, generator_depth, transformed, stack,
                   rewrites, run, first_output>>

visit_mut_module_skip ==
    /\ pc = "start"
    /\ program.type = "Module"
    /\ Len(program.body) > 0
    /\ is_no_inline_module_directive(program.body[1])
    /\ skip_file' = TRUE
    /\ program' = [program EXCEPT !.body = Tail(@)]
    /\ pc' = "done"
    /\ UNCHANGED <<input, comments, generator_depth, transformed, stack, rewrites,
                   run, first_output>>

visit_mut_module_children ==
    /\ pc = "start"
    /\ program.type = "Module"
    /\ ~(Len(program.body) > 0 /\ is_no_inline_module_directive(program.body[1]))
    /\ stack' = <<Frame(0, "unit")>>
    /\ pc' = "visit"
    /\ UNCHANGED <<program, input, comments, generator_depth, transformed, skip_file,
                   rewrites, run, first_output>>

\* the import is prepended whether or not anything was rewritten
visit_mut_module_return_always ==
    /\ pc = "visit"
    /\ program.type = "Module"
    /\ Len(stack) = 1
    /\ Top.next > Len(visit_mut_children_with(program))
    /\ program' = [program EXCEPT !.body = <<inline_import>> \o @]
    /\ stack' = <<>>
    /\ pc' = "done"
    /\ UNCHANGED <<input, comments, generator_depth, transformed, skip_file, rewrites,
                   run, first_output>>

visit_mut_module_return ==
    /\ pc = "visit"
    /\ program.type = "Module"
    /\ Len(stack) = 1
    /\ Top.next > Len(visit_mut_children_with(program))
    /\ program' = IF transformed
                  THEN [program EXCEPT !.body = <<inline_import>> \o @]
                  ELSE program
    /\ stack' = <<>>
    /\ pc' = "done"
    /\ UNCHANGED <<input, comments, generator_depth, transformed, skip_file, rewrites,
                   run, first_output>>

(***************************************************************************)
(* visit_mut_script                                                        *)
(***************************************************************************)
visit_mut_script_skip ==
    /\ pc = "start"
    /\ program.type = "Script"
    /\ Len(program.body) > 0
    /\ is_no_inline_directive(program.body[1])
    /\ skip_file' = TRUE
    /\ program' = [program EXCEPT !.body = Tail(@)]
    /\ pc' = "done"
    /\ UNCHANGED <<input, comments, generator_depth, transformed, stack, rewrites,
                   run, first_output>>

visit_mut_script_children ==
    /\ pc = "start"
    /\ program.type = "Script"
    /\ ~(Len(program.body) > 0 /\ is_no_inline_directive(program.body[1]))
    /\ stack' = <<Frame(0, "unit")>>
    /\ pc' = "visit"
    /\ UNCHANGED <<program, input, comments, generator_depth, transformed, skip_file,
                   rewrites, run, first_output>>

visit_mut_script_return ==
    /\ pc = "visit"
    /\ program.type = "Script"
    /\ Len(stack) = 1
    /\ Top.next > Len(visit_mut_children_with(program))
    /\ stack' = <<>>
    /\ pc' = "done"
    /\ UNCHANGED <<program, input, comments, generator_depth, transformed, skip_file,
                   rewrites, run, first_output>>

(***************************************************************************)
(* visit_mut_children_with: descend into the next child.  A child that is  *)
(* a function enters visit_mut_function, any other enters visit_mut_expr.  *)
(***************************************************************************)
visit_mut_function_enter ==
    /\ pc = "visit"
    /\ stack # <<>>
    /\ Top.next <= Len(visit_mut_children_with(CurNode))
    /\ LET f == visit_mut_children_with(CurNode)[Top.next]
           branch == IF f.type = "Fn" THEN FunctionBranch(f) ELSE "expr"
       IN  /\ f.type = "Fn"
           /\ generator_depth' = DepthOnEntry(branch, generator_depth)
           /\ stack' = [stack EXCEPT ![Len(stack)].next = @ + 1]
                         \o <<Frame(Top.next, branch)>>
    /\ UNCHANGED <<program, input, comments, transformed, skip_file, pc, rewrites,
                   run, first_output>>

visit_mut_function_return ==
    /\ pc = "visit"
    /\ Len(stack) > 1
    /\ CurNode.type = "Fn"
    /\ Top.next > Len(visit_mut_children_with(CurNode))
    /\ generator_depth' = DepthOnExit(Top.branch, generator_depth)
    /\ stack' = Pop(stack)
    /\ UNCHANGED <<program, input, comments, transformed, skip_file, pc, rewrites,
                   run, first_output>>

(***************************************************************************)
(* visit_mut_expr                                                          *)
(***************************************************************************)
visit_mut_expr_enter ==
    /\ pc = "visit"
    /\ stack # <<>>
    /\ Top.next <= Len(visit_mut_children_with(CurNode))
    /\ visit_mut_children_with(CurNode)[Top.next].type # "Fn"
    /\ stack' = [stack EXCEPT ![Len(stack)].next = @ + 1] \o <<Frame(Top.next, "expr")>>
    /\ UNCHANGED <<program, input, comments, generator_depth, transformed, skip_file,
                   pc, rewrites, run, first_output>>

visit_mut_expr_return ==
    /\ pc = "visit"
    /\ Len(stack) > 1
    /\ CurNode.type # "Fn"
    /\ Top.next > Len(visit_mut_children_with(CurNode))
    /\ LET e == CurNode
           out == RewriteExpr(e, generator_depth)
       IN  /\ program' = ReplaceAt(program, Path(stack), out)
           /\ transformed' = (transformed \/ out # e)
           /\ rewrites' = IF out # e THEN rewrites + 1 ELSE rewrites
    /\ stack' = Pop(stack)
    /\ UNCHANGED <<input, comments, generator_depth, skip_file, pc, run, first_output>>

Next ==
    \/ visit_mut_module_skip
    \/ visit_mut_module_children
    \/ visit_mut_module_return
    \/ visit_mut_script_skip
    \/ visit_mut_script_children
    \/ visit_mut_script_return
    \/ visit_mut_function_enter
    \/ visit_mut_function_return
    \/ visit_mut_expr_enter
    \/ visit_mut_expr_return

Spec == Init /\ [][Next]_vars

(***************************************************************************)
(* A second application: process_transform, with a fresh visitor and the   *)
(* same comment store, on the Program the first application returned.      *)
(***************************************************************************)
process_transform_again ==
    /\ pc = "done"
    /\ run = 1
    /\ run' = 2
    /\ first_output' = program
    /\ generator_depth' = 0
    /\ transformed' = FALSE
    /\ skip_file' = FALSE
    /\ rewrites' = 0
    /\ stack' = <<>>
    /\ pc' = "start"
    /\ UNCHANGED <<program, input, comments>>

NextAgain == Next \/ process_transform_again

SpecAgain == Init /\ [][NextAgain]_vars

(***************************************************************************)
(* Vocabulary of the properties.                                           *)
(***************************************************************************)
\* the unit starts with the opt-out directive
DirectiveFirst(unit) ==
    /\ Len(unit.body) > 0
    /\ unit.body[1] = ExprStmt(LitStr("no inline"))

IsImport(item) == item = ImportDecl("$$inline", "inline", "@effectionx/inline")
ImportPositions(unit) == {i \in 1..Len(unit.body) : IsImport(unit.body[i])}
NotImport(item) == ~IsImport(item)
\* the unit's items other than the injected import
OwnItems(unit) == SelectSeq(unit.body, NotImport)

\* a generator the comment lookup reports as opted out
OptedOut(f) == f.is_generator /\ has_noinline_annotation(f.span)
\* whether the children of n lie inside a generator that is not opted out,
\* given whether n does
ActiveBelow(n, active) ==
    IF n.type = "Fn" THEN active \/ (n.is_generator /\ ~OptedOut(n)) ELSE active

Finished == pc = "done" /\ run = 1

\* the delegating yields with an argument in e that lie inside a generator
\* that is not opted out
RECURSIVE Delegations(_, _)
Delegations(e, active) ==
    LET kids == Children(e)
        below == ActiveBelow(e, active)
        RECURSIVE Sum(_)
        Sum(i) == IF i = 0 THEN 0 ELSE Delegations(kids[i], below) + Sum(i - 1)
    IN  (IF e.type = "Yield" /\ active
         THEN IF e.delegate /\ e.arg # <<>> THEN 1 ELSE 0
         ELSE 0) + Sum(Len(kids))

\* what the unit's expressions are to become: the rewrite as a function of
\* the tree
RECURSIVE Rewritten(_, _)
Rewritten(e, active) ==
    CASE e.type = "Yield" ->
            IF e.arg = <<>> THEN e
            ELSE IF e.delegate /\ active
                 THEN ParenExpr(YieldExpr(
                          <<CallExpr(Ident("$$inline"), <<Rewritten(e.arg[1], active)>>)>>,
                          FALSE))
                 ELSE [e EXCEPT !.arg = <<Rewritten(e.arg[1], active)>>]
      [] e.type \in {"Module", "Script", "Fn"} ->
            [e EXCEPT !.body =
                [i \in 1..Len(e.body) |->
                    IF e.body[i].type = "ExprStmt"
                    THEN ExprStmt(Rewritten(e.body[i].expr, ActiveBelow(e, active)))
                    ELSE e.body[i]]]
      [] e.type = "Paren" -> [e EXCEPT !.expr = Rewritten(e.expr, active)]
      [] e.type = "Call" ->
            [e EXCEPT !.callee = Rewritten(e.callee, active),
                      !.args = [i \in 1..Len(e.args) |-> Rewritten(e.args[i], active)]]
      [] OTHER -> e

(***************************************************************************)
(* C1: in module form and in script form alike, after the transform the    *)
(* import `inline as $$inline` from `@effectionx/inline` is an item of the *)
(* unit iff at least one rewrite occurred; when present it appears exactly *)
(* once and is the first item.                                             *)
(***************************************************************************)
C1_ImportIffRewritten ==
    Finished =>
        /\ (ImportPositions(program) # {}) <=> (rewrites > 0)
        /\ ImportPositions(program) # {} => ImportPositions(program) = {1}

(***************************************************************************)
(* C2: in a unit that does not start with the opt-out directive, every     *)
(* `yield* e` with an argument inside a generator that is not opted out is *)
(* replaced by Paren(Yield(delegate = false, Call($$inline, [e']))) with   *)
(* e' the transformed argument; afterwards none remains, and the number of *)
(* rewrites is the number of such expressions in the input.                *)
(***************************************************************************)
C2_EveryDelegationRewritten ==
    (Finished /\ ~DirectiveFirst(input)) =>
        /\ OwnItems(program) = Rewritten(input, FALSE).body
        /\ Delegations(program, FALSE) = 0
        /\ rewrites = Delegations(input, FALSE)

C2_Witness ==
    /\ Finished
    /\ ~DirectiveFirst(input)
    /\ rewrites = 2
    /\ Delegations(input, FALSE) = 2
    /\ comments # <<>>

(***************************************************************************)
(* The input's nodes side by side with what stands in their place in the   *)
(* output.  depth is the number of enclosing generators that are not opted *)
(* out, owner the kind of the nearest enclosing function, shielded whether *)
(* an opted-out generator encloses the node.  matched is FALSE where the   *)
(* output cannot be lined up with the input.                               *)
(***************************************************************************)
IsInlineForm(out) ==
    /\ out.type = "Paren"
    /\ out.expr.type = "Yield"
    /\ out.expr.arg # <<>>
    /\ out.expr.arg[1].type = "Call"
    /\ out.expr.arg[1].callee = Ident("$$inline")
    /\ Len(out.expr.arg[1].args) = 1

OwnerOf(f) ==
    IF ~f.is_generator THEN "function"
    ELSE IF has_noinline_annotation(f.span) THEN "noinline" ELSE "generator"

RECURSIVE Pairs(_, _, _, _, _)
Pairs(in, out, depth, owner, shielded) ==
    LET lifted == in.type = "Yield" /\ in.arg # <<>> /\ IsInlineForm(out)
        aligned == out.type = in.type /\ Len(Children(out)) = Len(Children(in))
        d == IF in.type = "Fn" /\ OwnerOf(in) = "generator" THEN depth + 1 ELSE depth
        o == IF in.type = "Fn" THEN OwnerOf(in) ELSE owner
        sh == IF in.type = "Fn" THEN shielded \/ OwnerOf(in) = "noinline" ELSE shielded
    IN  {[in |-> in, out |-> out, depth |-> depth, owner |-> owner,
          shielded |-> shielded, matched |-> lifted \/ aligned]}
        \cup (IF lifted
              THEN Pairs(in.arg[1], out.expr.arg[1].args[1], depth, owner, shielded)
              ELSE IF aligned
                   THEN UNION {Pairs(Children(in)[i], Children(out)[i], d, o, sh) :
                                  i \in 1..Len(Children(in))}
                   ELSE {})

\* the input as the traversal meets it: without the directive it started with
InputItems == IF DirectiveFirst(input) THEN Tail(input.body) ELSE input.body

UnitPairs ==
    Pairs(Program(input.type, InputItems), Program(program.type, OwnItems(program)),
          0, "none", FALSE)

\* a node's own fields, its children left out
Own(n) ==
    CASE n.type = "Yield" -> [type |-> "Yield", delegate |-> n.delegate, args |-> Len(n.arg)]
      [] n.type = "Fn" -> [n EXCEPT !.body = Len(@)]
      [] n.type \in {"Module", "Script"} -> [n EXCEPT !.body = Len(@)]
      [] n.type = "Call" -> [type |-> "Call", args |-> Len(n.args)]
      [] n.type = "Paren" -> [type |-> "Paren"]
      [] OTHER -> n

IsDelegating(e) == e.type = "Yield" /\ e.delegate
IsPlainYield(e) == e.type = "Yield" /\ ~e.delegate

\* the delegating yields in e, with or without an argument, inside a
\* generator that is not opted out
RECURSIVE ActiveDelegating(_, _)
ActiveDelegating(e, active) ==
    LET kids == Children(e)
        below == ActiveBelow(e, active)
        RECURSIVE Sum(_)
        Sum(i) == IF i = 0 THEN 0 ELSE ActiveDelegating(kids[i], below) + Sum(i - 1)
    IN  (IF IsDelegating(e) /\ active THEN 1 ELSE 0) + Sum(Len(kids))

(***************************************************************************)
(* C3: the transform never changes a non-delegating yield (it stays a      *)
(* Yield with delegate = false, not wrapped), never changes an expression  *)
(* visited at generator depth 0, and a unit that contains no delegating    *)
(* yield inside an active generator is returned identical to the input,    *)
(* with no import.                                                         *)
(***************************************************************************)
C3_NodesPreserved ==
    \A p \in UnitPairs :
        /\ p.matched
        /\ IsPlainYield(p.in) => Own(p.out) = Own(p.in)
        /\ p.depth = 0 => Own(p.out) = Own(p.in)

\* C3 as stated: the last part for every unit, those that start with the
\* opt-out directive included
C3_Original ==
    Finished =>
        /\ C3_NodesPreserved
        /\ ActiveDelegating(input, FALSE) = 0 => program = input

\* C3, amended: the transform never changes a non-delegating yield nor an
\* expression visited at generator depth 0, and a unit that does not start
\* with the opt-out directive and contains no delegating yield inside an
\* active generator is returned identical to the input, with no import
C3_FramePreserved ==
    Finished =>
        /\ C3_NodesPreserved
        /\ (ActiveDelegating(input, FALSE) = 0 /\ ~DirectiveFirst(input))
              => program = input

C3_Witness ==
    /\ Finished
    /\ rewrites = 1
    /\ \E p \in UnitPairs : IsPlainYield(p.in) /\ p.depth > 0 /\ p.in.arg # <<>>
    /\ \E p \in UnitPairs : IsDelegating(p.in) /\ p.depth = 0 /\ p.in.arg # <<>>

(***************************************************************************)
(* C4: a unit, module or script, whose first item is the statement         *)
(* "no inline" loses exactly that item; no delegating yield in it is       *)
(* rewritten, no import is injected, and the other items stay as they are, *)
(* in the same order.                                                      *)
(***************************************************************************)
C4_DirectiveSkipsUnit ==
    (Finished /\ DirectiveFirst(input)) =>
        /\ program = Program(input.type, Tail(input.body))
        /\ rewrites = 0
        /\ ~transformed
        /\ ImportPositions(program) = {}

C4_Witness ==
    /\ Finished
    /\ DirectiveFirst(input)
    /\ Delegations(input, FALSE) = 2
    /\ program.body = Tail(input.body)

(***************************************************************************)
(* C5: for every generator whose leading block comment contains            *)
(* `@noinline`, at top level or nested in another generator, no delegating *)
(* yield of its own body is rewritten, and every delegating yield of a     *)
(* non-annotated generator declared in its body is rewritten.              *)
(***************************************************************************)
C5_NoinlineRespected ==
    (Finished /\ comments # <<>> /\ ~DirectiveFirst(input)) =>
        \A p \in UnitPairs :
            /\ p.matched
            /\ (IsDelegating(p.in) /\ p.owner = "noinline") => Own(p.out) = Own(p.in)
            /\ (IsDelegating(p.in) /\ p.in.arg # <<>> /\ p.owner = "generator"
                    /\ p.shielded) => IsInlineForm(p.out)

(***************************************************************************)
(* C6: the rewrite is bottom-up: the delegating yields inside a node are   *)
(* rewritten before the node is inspected, so the argument of every        *)
(* `$$inline(...)` call is already rewritten; each delegation is rewritten *)
(* exactly once, and no rewritten node is rewritten again.                 *)
(***************************************************************************)
\* the node of the k-th frame
FrameNode(k) == NodeAt(program, Path(SubSeq(stack, 1, k)))
\* whether the children of the k-th frame's node are inside an active generator
FrameActive(k) ==
    \E j \in 1..k : FrameNode(j).type = "Fn" /\ OwnerOf(FrameNode(j)) = "generator"
\* the children of the k-th frame's node whose visit has returned
Returned(k) == 1..(stack[k].next - (IF k < Len(stack) THEN 2 ELSE 1))

\* the `$$inline(...)` calls in e
RECURSIVE InlineCalls(_)
InlineCalls(e) ==
    LET kids == Children(e)
        RECURSIVE Sum(_)
        Sum(i) == IF i = 0 THEN 0 ELSE InlineCalls(kids[i]) + Sum(i - 1)
    IN  (IF e.type = "Call" THEN IF e.callee = Ident("$$inline") THEN 1 ELSE 0 ELSE 0)
        + Sum(Len(kids))

C6_BottomUp ==
    run = 1 =>
        /\ pc = "visit" =>
              \A k \in 1..Len(stack) : \A i \in Returned(k) :
                  Delegations(Children(FrameNode(k))[i], FrameActive(k)) = 0
        /\ pc = "visit" =>
              rewrites + Delegations(program, FALSE) = Delegations(input, FALSE)
        /\ InlineCalls(program) = rewrites

\* the outer yield* of `yield* (function* () { yield* foo })` is about to be
\* inspected
C6_Witness ==
    /\ run = 1
    /\ pc = "visit"
    /\ Len(stack) > 1
    /\ IsDelegating(FrameNode(Len(stack)))
    /\ Top.next = 2
    /\ rewrites = 1
    /\ FrameNode(Len(stack)).arg[1].type = "Fn"
    /\ Delegations(input, FALSE) = 2

(***************************************************************************)
(* C8: a unit is skipped only when its first item is the statement         *)
(* "no inline", compared exactly: a unit with no items is never skipped, a *)
(* "no inline" statement at a later position is not removed and does not   *)
(* disable rewriting, and any other first item leaves the unit to the      *)
(* normal traversal.                                                       *)
(***************************************************************************)
C8_OnlyExactFirstDirective ==
    run = 1 =>
        /\ skip_file => DirectiveFirst(input)
        /\ (pc # "start" /\ ~DirectiveFirst(input)) => ~skip_file
        /\ Len(input.body) = 0 => ~skip_file
        /\ (pc = "done" /\ ~DirectiveFirst(input)) =>
              /\ OwnItems(program) = Rewritten(input, FALSE).body
              /\ \A k \in 2..Len(input.body) :
                    input.body[k] = ExprStmt(LitStr("no inline"))
                        => OwnItems(program)[k] = input.body[k]
              /\ rewrites = Delegations(input, FALSE)

C8_Witness ==
    /\ Finished
    /\ ~skip_file
    /\ Len(input.body) = 3
    /\ input.body[1] = ExprStmt(LitStr("No Inline"))
    /\ input.body[2] = ExprStmt(LitStr("no inline"))
    /\ program.body[3] = input.body[2]
    /\ rewrites = 1

(***************************************************************************)
(* C9: generator_depth starts at 0, is never negative, equals at every     *)
(* point of the traversal the number of enclosing non-annotated generators *)
(* being visited (so it goes up by one on entering and down by one on      *)
(* leaving each of them, and is left alone by non-generator functions and  *)
(* annotated generators), and is 0 again when the traversal is over.       *)
(***************************************************************************)
EnclosingGenerators ==
    {k \in 2..Len(stack) :
        /\ FrameNode(k).type = "Fn"
        /\ FrameNode(k).is_generator
        /\ ~has_noinline_annotation(FrameNode(k).span)}

C9_DepthCountsGenerators ==
    /\ generator_depth >= 0
    /\ generator_depth = Cardinality(EnclosingGenerators)
    /\ pc \in {"start", "done"} => generator_depth = 0

\* inside function () { function* () { /* @noinline */ function* () { function* () {
C9_Witness ==
    /\ pc = "visit"
    /\ generator_depth = 2
    /\ \E k \in 2..Len(stack) : stack[k].branch = "noinline"
    /\ \E k \in 2..Len(stack) : stack[k].branch = "plain"

(***************************************************************************)
(* C10: a delegating yield without an argument inside an active generator  *)
(* is left as it is, does not set `transformed`, by itself causes no       *)
(* import, and the traversal goes on past it: its visit returns, leaving   *)
(* the node in its slot.                                                   *)
(***************************************************************************)
C10_ArglessDelegationUntouched ==
    /\ Finished =>
          /\ \A p \in UnitPairs :
                /\ p.matched
                /\ (IsDelegating(p.in) /\ p.in.arg = <<>>) => p.out = p.in
          /\ Delegations(input, FALSE) = 0 =>
                (~transformed /\ ImportPositions(program) = {})
    /\ (pc = "visit" /\ Len(stack) > 1 /\ generator_depth > 0
            /\ CurNode = YieldExpr(<<>>, TRUE)) =>
          /\ Top.next > Len(visit_mut_children_with(CurNode))
          /\ RewriteExpr(CurNode, generator_depth) = CurNode

C10_Witness ==
    /\ Finished
    /\ ~transformed
    /\ program = input
    /\ \E p \in UnitPairs : IsDelegating(p.in) /\ p.in.arg = <<>> /\ p.depth = 2

(***************************************************************************)
(* C7: the transform is stable: applied to its own output, with a fresh    *)
(* visitor and the same comment lookup, it rewrites nothing, adds no       *)
(* second import and returns the unit as the first application left it.    *)
(***************************************************************************)
FinishedAgain == pc = "done" /\ run = 2

\* C7 as stated: for every unit, the second application rewrites nothing,
\* leaves at most one import and returns the first application's output
C7_Original ==
    FinishedAgain =>
        /\ rewrites = 0
        /\ Cardinality(ImportPositions(program)) <= 1
        /\ program = first_output

\* C7, amended: for a unit that does not start with the opt-out directive,
\* the second application rewrites nothing, adds no import and returns the
\* unit as the first application left it
C7_StableUnlessSkipped ==
    (FinishedAgain /\ ~DirectiveFirst(input)) =>
        /\ rewrites = 0
        /\ Cardinality(ImportPositions(program))
              = Cardinality(ImportPositions(first_output))
        /\ program = first_output

C7_Witness ==
    /\ FinishedAgain
    /\ ~DirectiveFirst(input)
    /\ InlineCalls(first_output) = 2
    /\ ImportPositions(first_output) = {1}
    /\ program = first_output

====
